---- MODULE Spec2Model ----
(***************************************************************************)
(* A model of the Mzalendo scraper (src/enhanced_mzalendo_scraper.py and   *)
(* src/mzalendo_runner.py): the Fetcher's retry loop, the pagination       *)
(* extractor, and the orchestrator (scrape_leaders, scrape_leaders_threaded*)
(* and scrape_all) over a memoised web site, and, each on its own inputs,  *)
(* the detail extractor, the promise classifier, the enricher and the      *)
(* statistics aggregator.                                                  *)
(*                                                                         *)
(* Text is a sequence of one-character strings, a URL is a record          *)
(* [path, page] (page = 0: no "page=" query parameter), Python's None is   *)
(* carried by a flag next to the value it replaces.                        *)
(***************************************************************************)
EXTENDS Integers, Sequences, FiniteSets, TLC

VARIABLES
    fetch,      \* get_page: one call's frame (url, retry_count, attempt, ...)
    pag,        \* get_pagination_links: the page's numbered links and the value returned
    web,        \* the site: listing URL -> what a fetch of it yields (memoised)
    det,        \* the site: profile -> what fetching and saving its detail page yields
    cfg,        \* the run's configuration: max_workers, the modes of the runs, ...
    top,        \* the caller of scrapeCategory: its position and accumulated results
    call,       \* the running scrape_leaders / scrape_leaders_threaded frame
    tasks,      \* scrape_leaders_threaded: the executor's tasks, one per politician
    files,      \* the output directory: path -> the record last written there
    hist,       \* history: the requests issued and the files written, in order
    detail,     \* parse_politician_detail_page: the page parsed and the record returned
    promise,    \* categorize_promise: the text and the category returned
    enrich,     \* enrich_county_data: the list passed in and the lists returned
    stats       \* generate_statistics: the corpus and the statistics written

vars == <<fetch, pag, web, det, cfg, top, call, tasks, files, hist,
          detail, promise, enrich, stats>>

\* the four units above, outside any call
units == <<detail, promise, enrich, stats>>

----------------------------------------------------------------------------
(* Bounds of the model *)

\* get_page is called with retry_count in 1..MaxRetry (its default is 3)
MaxRetry == 4
\* a listing page carries at most MaxLinks numbered page links
MaxLinks == 2
\* the worker pool is at most MaxWorkers wide
MaxWorkers == 2
\* under scrape_all: a listing page carries at most MaxLinksAll numbered page
\* links and the index at most MaxCounties county assemblies
MaxLinksAll == 1
MaxCounties == 1
\* categorize_promise is run on texts of at most MaxWords words
MaxWords == 2
\* enrich_county_data is run on lists of at most MaxRecords records
MaxRecords == 2
\* generate_statistics is run on a corpus of at most MaxLeaders leaders
MaxLeaders == 2
\* a detail page carries at most MaxStatements statements
MaxStatements == 7
\* a detail page carries at most MaxRows attendance rows
MaxRows == 2

(* Program constants *)

\* get_page(self, url, retry_count=3)
DefaultRetryCount == 3
\* __init__(self, output_dir="scraped_data", max_workers=5)
DefaultMaxWorkers == 5

----------------------------------------------------------------------------
(* Sequences *)

SeqsUpTo(S, n) == UNION { [1..k -> S] : k \in 0..n }

\* [x for x in s if not (x in seen or seen.add(x))]
RECURSIVE Dedup(_, _)
Dedup(s, seen) ==
    IF s = <<>> THEN <<>>
    ELSE IF Head(s) \in seen THEN Dedup(Tail(s), seen)
    ELSE <<Head(s)>> \o Dedup(Tail(s), seen \cup {Head(s)})

----------------------------------------------------------------------------
(* URLs *)

BasePath == "/"
NationalAssemblyPath == "/parliament/national_assembly/"
SenatePath == "/parliament/senate/"
CountyIndexPath == "/parliament/county_assemblies/"
CountyPath == "/county_assemblies/nairobi/"

Url(path, page) == [path |-> path, page |-> page]

\* the first decimal digit of n
RECURSIVE LeadDigit(_)
LeadDigit(n) == IF n < 10 THEN n ELSE LeadDigit(n \div 10)

\* 'page=1' in url: the text "page=" followed by a number that starts with 1
HasPage1(url) == url.page # 0 /\ LeadDigit(url.page) = 1

\* urljoin(self.base_url, '/parliament/national_assembly/')
FirstPageUrl == Url(NationalAssemblyPath, 0)

----------------------------------------------------------------------------
(* Fetcher: get_page *)

\* what one session.get + raise_for_status can do: raise a RequestException,
\* or answer with a body (which may be empty)
Bodies == {"", "<html>"}
Outcomes == {[ok |-> FALSE, text |-> ""]} \cup {[ok |-> TRUE, text |-> b] : b \in Bodies}

FetchUrls == {Url(NationalAssemblyPath, 0), Url(SenatePath, 0), Url(CountyIndexPath, 0)}

\* the frame of a call get_page(url, retry_count) before its first iteration.
\* slept is in half seconds; none = TRUE stands for the return value None
NewFetch(url, retry_count) ==
    [url |-> url, retry_count |-> retry_count, attempt |-> 0, requests |-> 0,
     slept |-> 0, status |-> "running", none |-> FALSE, text |-> "", log |-> <<>>]

IdleFetch == [NewFetch(FirstPageUrl, 0) EXCEPT !.status = "idle"]

\* time.sleep(1 + attempt * 0.5), in half seconds
ThrottleSleep(attempt) == 2 + attempt
\* time.sleep(2 * (attempt + 1)), in half seconds
BackoffSleep(attempt) == 4 * (attempt + 1)

\* the faulty variant of ReturnsOnSuccess: a successful attempt is retried like a failed one
ReturnsOnSuccessNever(o) == FALSE
\* line 55 is reached: the request raised nothing
ReturnsOnSuccess(o) == o.ok

\* one iteration of `for attempt in range(retry_count)` (or, with the range
\* used up, the final `return None`), the request's outcome being o
AttemptStep(f, o) ==
    IF f.attempt >= f.retry_count
    THEN [f EXCEPT !.status = "returned", !.none = TRUE]
    ELSE LET g == [f EXCEPT !.requests = @ + 1, !.log = Append(@, o)]
         IN IF ReturnsOnSuccess(o)
            THEN [g EXCEPT !.slept = @ + ThrottleSleep(f.attempt),
                           !.status = "returned", !.none = FALSE, !.text = o.text]
            ELSE IF f.attempt = f.retry_count - 1
            THEN [g EXCEPT !.status = "returned", !.none = TRUE]
            ELSE [g EXCEPT !.slept = @ + BackoffSleep(f.attempt), !.attempt = @ + 1]

\* get_page run to its return, attempt number a (from 0) having outcome out[a]
RECURSIVE RunFetch(_, _)
RunFetch(f, out) ==
    IF f.status = "returned" THEN f
    ELSE RunFetch(AttemptStep(f, IF f.attempt \in DOMAIN out THEN out[f.attempt]
                                 ELSE [ok |-> FALSE, text |-> ""]), out)

\* `if not html`: None and the empty string are both falsy
Falsy(f) == f.none \/ f.text = ""

GetPageStep ==
    /\ fetch.status = "running"
    /\ \E o \in Outcomes : fetch' = AttemptStep(fetch, o)
    /\ UNCHANGED <<pag, web, det, cfg, top, call, tasks, files, hist, units>>

----------------------------------------------------------------------------
(* List Extractor: get_pagination_links *)

\* the numbered links a page can carry, after urljoin(self.base_url, href)
LinkPages == {0, 1, 2, 10}
LinkUrls == { Url(p, n) : p \in {NationalAssemblyPath, BasePath}, n \in LinkPages }

NoneUrls == [none |-> TRUE, urls |-> <<>>]
SomeUrls(s) == [none |-> FALSE, urls |-> s]

\* the faulty variant of get_pagination_links: no first page is synthesized
get_pagination_links_bare(links) ==
    IF ~ \E i \in 1..Len(links) : HasPage1(links[i])
    THEN SomeUrls(Dedup(links, {}))
    ELSE NoneUrls
\* get_pagination_links(html), links being the resolved hrefs of the page's
\* a.number_box elements in document order.  The return statement is inside
\* the `if`: with a 'page=1' link present the function falls off its end.
get_pagination_links(links) ==
    IF ~ \E i \in 1..Len(links) : HasPage1(links[i])
    THEN SomeUrls(Dedup(<<FirstPageUrl>> \o links, {}))
    ELSE NoneUrls

IdlePag == [links |-> <<>>, done |-> FALSE, result |-> NoneUrls]

ExtractPagination ==
    /\ ~ pag.done
    /\ pag' = [pag EXCEPT !.done = TRUE, !.result = get_pagination_links(pag.links)]
    /\ UNCHANGED <<fetch, web, det, cfg, top, call, tasks, files, hist, units>>

----------------------------------------------------------------------------
(* Text, ids and records *)

UpperCase == 
    <<"A", "B", "C", "D", "E", "F", "G", "H", "I", "J", "K", "L", "M", 
     "N", "O", "P", "Q", "R", "S", "T", "U", "V", "W", "X", "Y", "Z">>
LowerCase == 
    <<"a", "b", "c", "d", "e", "f", "g", "h", "i", "j", "k", "l", "m", 
     "n", "o", "p", "q", "r", "s", "t", "u", "v", "w", "x", "y", "z">>

\* str.lower(), one character at a time
Lower(c) ==
    IF \E i \in DOMAIN UpperCase : UpperCase[i] = c
    THEN LowerCase[CHOOSE i \in DOMAIN UpperCase : UpperCase[i] = c]
    ELSE c

\* text.lower()
LowerText(t) == [i \in 1..Len(t) |-> Lower(t[i])]

\* `k in t`: k is a substring of t
Contains(k, t) == \E i \in 0..(Len(t) - Len(k)) : SubSeq(t, i + 1, i + Len(k)) = k

\* t.startswith(k)
StartsWith(t, k) == Len(k) <= Len(t) /\ SubSeq(t, 1, Len(k)) = k

\* the concatenation of a sequence of texts
RECURSIVE Concat(_)
Concat(ts) == IF ts = <<>> THEN <<>> ELSE Head(ts) \o Concat(Tail(ts))

\* \w or '-': what re.sub(r'[^\w\-]', '', ...) keeps
IsSafeChar(c) == c \in {"a", "b", "p", "q", "A", "B", "-", "_"}

RECURSIVE StripSlashes(_)
\* url.strip('/')
StripSlashes(t) ==
    IF t = <<>> THEN t
    ELSE IF Head(t) = "/" THEN StripSlashes(Tail(t))
    ELSE IF t[Len(t)] = "/" THEN StripSlashes(SubSeq(t, 1, Len(t) - 1))
    ELSE t

RECURSIVE LastSegment(_)
\* t.split('/')[-1]
LastSegment(t) ==
    IF t = <<>> THEN <<>>
    ELSE IF t[Len(t)] = "/" THEN <<>>
    ELSE Append(LastSegment(SubSeq(t, 1, Len(t) - 1)), t[Len(t)])

\* basic_info['profile_url'].strip('/').split('/')[-1]
IdFromUrl(url) == LastSegment(StripSlashes(url))

SpaceToDash(c) == IF c = " " THEN "-" ELSE c
\* politician_data['name'].lower().replace(' ', '-')
IdFromName(name) == [i \in 1..Len(name) |-> SpaceToDash(Lower(name[i]))]

\* re.sub(r'[^\w\-]', '', politician_id)
SafeId(id) == SelectSeq(id, IsSafeChar)

\* the profiles of the site: the name and the link of a politician's card, the
\* constituency its position text names ("": none) and the county its detail
\* page's location link names ("": none)
Profiles ==
    << [name |-> <<"A", " ", "b">>, profile_url |-> <<"/", "p", "/", "a", "/">>,
        constituency |-> "Kamukunji", detail_county |-> ""],
       [name |-> <<"B", ".">>,      profile_url |-> <<"/", "q", "/", "a", ".">>,
        constituency |-> "Nyali", detail_county |-> "Kwale"] >>

ProfileAt(profile_url) == CHOOSE p \in DOMAIN Profiles : Profiles[p].profile_url = profile_url

ProfileUrls == { Profiles[p].profile_url : p \in DOMAIN Profiles }

\* the dictionary parse_politician_list_page appends for a card.  has_id =
\* FALSE: the dictionary has no 'id' key; subcategory = "": no such key
Candidate(p, category) ==
    [name |-> Profiles[p].name, profile_url |-> Profiles[p].profile_url,
     constituency |-> Profiles[p].constituency, county |-> "",
     category |-> category, has_id |-> FALSE, id |-> <<>>, subcategory |-> ""]

RECURSIVE SortedSeq(_)
SortedSeq(S) ==
    IF S = {} THEN <<>>
    ELSE LET m == CHOOSE x \in S : \A y \in S : x <= y
         IN <<m>> \o SortedSeq(S \ {m})

\* the cards a listing page can carry: profiles of its pool, each at most once
CandLists(pool) == { SortedSeq(S) : S \in SUBSET pool }

\* parse_politician_list_page(html, category): html is the page of the site,
\* or falsy (kind "exhausted")
parse_politician_list_page(page, category) ==
    IF page.kind # "page" THEN <<>>
    ELSE [i \in 1..Len(page.cands) |-> Candidate(page.cands[i], category)]

\* the faulty variant of parse_politician_detail_page: a failed detail fetch
\* still yields a record with an id
parse_politician_detail_page_always(htmlOk, basic_info) ==
    [basic_info EXCEPT !.has_id = TRUE, !.id = IdFromUrl(basic_info.profile_url)]
\* parse_politician_detail_page(html, basic_info), as far as the orchestrator
\* reads its result: `if not html: return basic_info`, else a copy with 'id'
parse_politician_detail_page(htmlOk, basic_info) ==
    IF ~ htmlOk THEN basic_info
    ELSE LET county_text == Profiles[ProfileAt(basic_info.profile_url)].detail_county
         IN [basic_info EXCEPT !.has_id = TRUE, !.id = IdFromUrl(basic_info.profile_url),
                               !.county = IF county_text # "" THEN county_text ELSE @]

\* `if subcategory: detailed_data['subcategory'] = subcategory`
WithSubcategory(rec, subcategory) ==
    IF subcategory # "" THEN [rec EXCEPT !.subcategory = subcategory] ELSE rec

\* save_politician_data: the file it opens, os.path.join(output_dir, category, safe_id + ".json")
SavePath(rec, category) ==
    [category |-> category,
     safe_id |-> SafeId(IF ~ rec.has_id THEN IdFromName(rec.name) ELSE rec.id)]

\* the directory after json.dump(politician_data) into path (a full overwrite)
WriteFile(fs, path, rec) ==
    { f \in fs : f.path # path } \cup {[path |-> path, data |-> rec]}

----------------------------------------------------------------------------
(* Promise Classifier: categorize_promise *)

\* categories_keywords, in the order the dictionary is written (and iterated)
categories_keywords ==
    << [category |-> "Education", keywords |->
          <<<<"e", "d", "u", "c", "a", "t", "i", "o", "n">>,
            <<"s", "c", "h", "o", "o", "l">>,
            <<"u", "n", "i", "v", "e", "r", "s", "i", "t", "y">>,
            <<"c", "o", "l", "l", "e", "g", "e">>,
            <<"s", "t", "u", "d", "e", "n", "t">>,
            <<"l", "e", "a", "r", "n", "i", "n", "g">>>>],
       [category |-> "Healthcare", keywords |->
          <<<<"h", "e", "a", "l", "t", "h">>,
            <<"h", "o", "s", "p", "i", "t", "a", "l">>,
            <<"m", "e", "d", "i", "c", "a", "l">>,
            <<"c", "l", "i", "n", "i", "c">>,
            <<"d", "o", "c", "t", "o", "r">>,
            <<"d", "i", "s", "e", "a", "s", "e">>,
            <<"t", "r", "e", "a", "t", "m", "e", "n", "t">>>>],
       [category |-> "Infrastructure", keywords |->
          <<<<"r", "o", "a", "d">>,
            <<"b", "r", "i", "d", "g", "e">>,
            <<"b", "u", "i", "l", "d", "i", "n", "g">>,
            <<"c", "o", "n", "s", "t", "r", "u", "c", "t", "i", "o", "n">>,
            <<"i", "n", "f", "r", "a", "s", "t", "r", "u", "c", "t", "u", "r", "e">>>>],
       [category |-> "Water", keywords |->
          <<<<"w", "a", "t", "e", "r">>,
            <<"i", "r", "r", "i", "g", "a", "t", "i", "o", "n">>,
            <<"d", "a", "m">>,
            <<"b", "o", "r", "e", "h", "o", "l", "e">>,
            <<"p", "i", "p", "e", "l", "i", "n", "e">>>>],
       [category |-> "Agriculture", keywords |->
          <<<<"f", "a", "r", "m">>,
            <<"a", "g", "r", "i", "c", "u", "l", "t", "u", "r", "e">>,
            <<"c", "r", "o", "p">>,
            <<"l", "i", "v", "e", "s", "t", "o", "c", "k">>,
            <<"c", "a", "t", "t", "l", "e">>,
            <<"d", "a", "i", "r", "y">>>>],
       [category |-> "Economy", keywords |->
          <<<<"e", "c", "o", "n", "o", "m", "y">>,
            <<"b", "u", "s", "i", "n", "e", "s", "s">>,
            <<"e", "n", "t", "e", "r", "p", "r", "i", "s", "e">>,
            <<"j", "o", "b">>,
            <<"e", "m", "p", "l", "o", "y", "m", "e", "n", "t">>,
            <<"i", "n", "c", "o", "m", "e">>>>],
       [category |-> "Security", keywords |->
          <<<<"s", "e", "c", "u", "r", "i", "t", "y">>,
            <<"p", "o", "l", "i", "c", "e">>,
            <<"c", "r", "i", "m", "e">>,
            <<"s", "a", "f", "e", "t", "y">>>>] >>

\* lines 446-451 from the k-th category on
RECURSIVE ScanCategories(_, _)
ScanCategories(k, promise_lower) ==
    IF k > Len(categories_keywords) THEN "Other"
    ELSE IF \E j \in DOMAIN categories_keywords[k].keywords :
               Contains(categories_keywords[k].keywords[j], promise_lower)
    THEN categories_keywords[k].category
    ELSE ScanCategories(k + 1, promise_lower)

\* the faulty variant of categorize_promise: the text is not lower-cased
categorize_promise_cased(promise_text) == ScanCategories(1, promise_text)
\* categorize_promise(promise_text)
categorize_promise(promise_text) == ScanCategories(1, LowerText(promise_text))

\* the texts categorize_promise is run on: up to MaxWords words, space-separated
Vocabulary ==
    { <<"S", "c", "h", "o", "o", "l">>,
      <<"H", "O", "S", "P", "I", "T", "A", "L">>,
      <<"b", "r", "o", "a", "d", "b", "a", "n", "d">>,
      <<"D", "a", "m">>,
      <<"p", "o", "l", "i", "c", "e">>,
      <<"J", "o", "b">>,
      <<"t", "r", "e", "e">>,
      <<"f", "a", "r", "m", "e", "r">>,
      <<"W", "A", "T", "E", "R">> }

PromiseTexts ==
    { Concat([i \in 1..(2 * Len(ws) - 1) |-> IF i % 2 = 1 THEN ws[(i + 1) \div 2] ELSE <<" ">>]) :
        ws \in SeqsUpTo(Vocabulary, MaxWords) }

IdlePromise == [promise_text |-> <<>>, done |-> FALSE, category |-> ""]

Categorize ==
    /\ ~ promise.done
    /\ promise' = [promise EXCEPT !.done = TRUE,
                                  !.category = categorize_promise(promise.promise_text)]
    /\ UNCHANGED <<fetch, pag, web, det, cfg, top, call, tasks, files, hist,
                   detail, enrich, stats>>

----------------------------------------------------------------------------
(* Detail Extractor: the promises of parse_politician_detail_page *)

DigitChars == <<"0", "1", "2", "3", "4", "5", "6", "7", "8", "9">>
IsDigit(c) == \E i \in DOMAIN DigitChars : DigitChars[i] = c
DigitValue(c) == (CHOOSE i \in DOMAIN DigitChars : DigitChars[i] = c) - 1

\* int(ds), ds being decimal digits
RECURSIVE ToNat(_)
ToNat(ds) ==
    IF ds = <<>> THEN 0
    ELSE 10 * ToNat(SubSeq(ds, 1, Len(ds) - 1)) + DigitValue(ds[Len(ds)])

\* str(n) as f"{n}" writes it: no leading zeros
RECURSIVE Decimal(_)
Decimal(n) ==
    IF n < 10 THEN <<DigitChars[n + 1]>>
    ELSE Append(Decimal(n \div 10), DigitChars[(n % 10) + 1])

\* text.strip(), the white space being spaces
RECURSIVE Strip(_)
Strip(t) ==
    IF t = <<>> THEN t
    ELSE IF Head(t) = " " THEN Strip(Tail(t))
    ELSE IF t[Len(t)] = " " THEN Strip(SubSeq(t, 1, Len(t) - 1))
    ELSE t

\* t.split('-')
RECURSIVE SplitDash(_)
SplitDash(t) ==
    IF ~ \E i \in DOMAIN t : t[i] = "-" THEN <<t>>
    ELSE LET i == CHOOSE i \in DOMAIN t : t[i] = "-" /\ \A j \in 1..(i - 1) : t[j] # "-"
         IN <<SubSeq(t, 1, i - 1)>> \o SplitDash(SubSeq(t, i + 1, Len(t)))

\* re.match(r'\d{4}-\d{2}-\d{2}', t): the pattern matches at the start of t
MatchesDate(t) ==
    /\ Len(t) >= 10
    /\ \A i \in {1, 2, 3, 4, 6, 7, 9, 10} : IsDigit(t[i])
    /\ t[5] = "-" /\ t[8] = "-"

\* the faulty variant of PromiseId: numbered by the statement's position
PromiseIdByPosition(promises, position) == <<"p", "r">> \o Decimal(position)
\* f"pr{len(promises)+1}" for the statement at the given position
PromiseId(promises, position) == <<"p", "r">> \o Decimal(Len(promises) + 1)

NoText == <<>>

\* lines 325-348 for one statement: the promise appended, if any, or the
\* ValueError of unpacking date_text.split('-') into year, month, day.
\* has_dueDate = FALSE: the promise has no 'dueDate' key; likewise madeDate
PromiseOf(statement, promises, position) ==
    LET promise_text == Strip(statement.text)
        date_text == Strip(statement.date)
        base == [id |-> PromiseId(promises, position), description |-> promise_text,
                 category |-> categorize_promise(promise_text),
                 has_madeDate |-> FALSE, madeDate |-> NoText,
                 has_dueDate |-> FALSE, dueDate |-> NoText, status |-> "in-progress"]
        parts == SplitDash(date_text)
    IN IF ~ statement.has_text \/ promise_text = <<>>
       THEN [appended |-> FALSE, raised |-> FALSE, promise |-> base]
       ELSE IF ~ statement.has_date \/ date_text = <<>>
       THEN [appended |-> TRUE, raised |-> FALSE, promise |-> base]
       ELSE IF ~ MatchesDate(date_text)
       THEN [appended |-> TRUE, raised |-> FALSE,
             promise |-> [base EXCEPT !.has_madeDate = TRUE, !.madeDate = date_text]]
       ELSE IF Len(parts) # 3
       THEN [appended |-> FALSE, raised |-> TRUE, promise |-> base]
       ELSE [appended |-> TRUE, raised |-> FALSE,
             promise |-> [base EXCEPT !.has_madeDate = TRUE, !.madeDate = date_text,
                                      !.has_dueDate = TRUE,
                                      !.dueDate = Decimal(ToNat(parts[1]) + 3) \o <<"-">>
                                                  \o parts[2] \o <<"-">> \o parts[3]]]

\* lines 322-348: `for statement in statements_section`, from position k on
RECURSIVE PromisesLoop(_, _, _)
PromisesLoop(statements, k, promises) ==
    IF k > Len(statements) THEN [raised |-> FALSE, promises |-> promises]
    ELSE LET o == PromiseOf(statements[k], promises, k)
         IN IF o.raised THEN [raised |-> TRUE, promises |-> promises]
            ELSE PromisesLoop(statements, k + 1,
                              IF o.appended THEN Append(promises, o.promise) ELSE promises)

----------------------------------------------------------------------------
(* Detail Extractor: parse_politician_detail_page on a parsed page.  A page
   is what the selectors of the function find in it:
     party        the party its .person-party-membership text names (NoText: none)
     county_text  the text of its '.location a' (NoText: no such element)
     election, contact, committees   whether the section is there with content
     experience   "id": it has #experience; "class": it has no #experience but
                  .person-detail-experience elements; "none": neither
     statements   its .statement elements, attendance its attendance rows *)

\* t.replace(k, "")
RECURSIVE RemoveAll(_, _)
RemoveAll(k, t) ==
    IF Len(t) < Len(k) THEN t
    ELSE IF SubSeq(t, 1, Len(k)) = k THEN RemoveAll(k, SubSeq(t, Len(k) + 1, Len(t)))
    ELSE <<Head(t)>> \o RemoveAll(k, Tail(t))

\* round(num / den), halves to the even neighbour
RoundHalfEven(num, den) ==
    LET q == num \div den
        r == num % den
    IN IF 2 * r < den THEN q
       ELSE IF 2 * r > den THEN q + 1
       ELSE IF q % 2 = 0 THEN q ELSE q + 1

\* sum(record.get('present', 0) for record in attendance)
RECURSIVE TotalPresent(_)
TotalPresent(attendance) ==
    IF attendance = <<>> THEN 0
    ELSE (IF Head(attendance).has_present THEN Head(attendance).present ELSE 0)
         + TotalPresent(Tail(attendance))

\* sum(record.get('total', 0) for record in attendance)
RECURSIVE TotalSessions(_)
TotalSessions(attendance) ==
    IF attendance = <<>> THEN 0
    ELSE (IF Head(attendance).has_total THEN Head(attendance).total ELSE 0)
         + TotalSessions(Tail(attendance))

\* politician_data right after lines 196-200: the copy of basic_info with its
\* id, none of the optional keys set yet.  error: the except clause of line
\* 426 has been entered
NewData(basic_info) ==
    [basic |-> basic_info, id |-> IdFromUrl(basic_info.profile_url), error |-> FALSE,
     has_party |-> FALSE, party |-> NoText, has_county |-> FALSE, county |-> NoText,
     has_election |-> FALSE, has_contact |-> FALSE, has_education |-> FALSE,
     has_promises |-> FALSE, promises |-> <<>>,
     has_attendance |-> FALSE, attendance |-> <<>>, has_committees |-> FALSE,
     has_approvalRating |-> FALSE, approvalRating |-> 0,
     has_keyAchievements |-> FALSE, keyAchievements |-> <<>>]

\* lines 370-387: the record of one attendance row (total only with both counts)
AttendanceRecord(entry) ==
    [has_present |-> entry.has_present, present |-> entry.present,
     has_absent |-> entry.has_absent, absent |-> entry.absent,
     has_total |-> entry.has_present /\ entry.has_absent,
     total |-> IF entry.has_present /\ entry.has_absent THEN entry.present + entry.absent ELSE 0]

\* the sections of the try block in the order of the source
NumSections == 10

\* the k-th section of the try block (lines 204-424) applied to politician_data d
Section(k, d, page) ==
    CASE k = 1 ->   \* lines 205-210, party
           IF page.party # NoText THEN [d EXCEPT !.has_party = TRUE, !.party = page.party] ELSE d
      [] k = 2 ->   \* lines 213-217, county
           LET county_text == Strip(page.county_text)
           IN IF Contains(<<"C", "o", "u", "n", "t", "y">>, county_text)
              THEN [d EXCEPT !.has_county = TRUE,
                             !.county = Strip(RemoveAll(<<"C", "o", "u", "n", "t", "y">>, county_text))]
              ELSE d
      [] k = 3 ->   \* lines 220-235, election
           [d EXCEPT !.has_election = page.election]
      [] k = 4 ->   \* lines 238-272, contact
           [d EXCEPT !.has_contact = page.contact]
      [] k = 5 ->   \* lines 275-319, experience: without #experience the section
                    \* is the list soup.select returns, and a non-empty list has
                    \* no .select: AttributeError
           IF page.experience = "none" THEN d
           ELSE IF page.experience = "id" THEN [d EXCEPT !.has_education = TRUE]
           ELSE [d EXCEPT !.error = TRUE]
      [] k = 6 ->   \* lines 322-351, promises
           LET o == PromisesLoop(page.statements, 1, <<>>)
           IN IF o.raised THEN [d EXCEPT !.error = TRUE]
              ELSE IF o.promises # <<>>
              THEN [d EXCEPT !.has_promises = TRUE, !.promises = o.promises]
              ELSE d
      [] k = 7 ->   \* lines 354-390, attendance
           IF page.attendance # <<>>
           THEN [d EXCEPT !.has_attendance = TRUE,
                          !.attendance = [i \in 1..Len(page.attendance) |->
                                             AttendanceRecord(page.attendance[i])]]
           ELSE d
      [] k = 8 ->   \* lines 393-404, committees
           [d EXCEPT !.has_committees = page.committees]
      [] k = 9 ->   \* lines 409-415, approvalRating, in tenths
           LET total_present == TotalPresent(d.attendance)
               total_sessions == TotalSessions(d.attendance)
           IN IF d.has_attendance /\ total_sessions > 0
              THEN [d EXCEPT !.has_approvalRating = TRUE,
                             !.approvalRating = RoundHalfEven(50 * total_present, total_sessions)]
              ELSE d
      [] k = 10 ->  \* lines 418-424, keyAchievements: promises[:5]
           IF d.has_promises
           THEN [d EXCEPT !.has_keyAchievements = TRUE,
                          !.keyAchievements =
                              [i \in 1..(IF Len(d.promises) < 5 THEN Len(d.promises) ELSE 5) |->
                                  d.promises[i].description]]
           ELSE d

\* lines 203-427: the try block from its k-th section on; an exception leaves
\* it for the except clause, which logs and falls through to the return
RECURSIVE RunSections(_, _, _)
RunSections(k, d, page) ==
    IF k > NumSections \/ d.error THEN d
    ELSE RunSections(k + 1, Section(k, d, page), page)

\* parse_politician_detail_page(html, basic_info) for a truthy html that parses to page
ParseDetail(page, basic_info) == RunSections(1, NewData(basic_info), page)

\* a page none of whose selectors match
BarePage ==
    [party |-> NoText, county_text |-> NoText, election |-> FALSE, contact |-> FALSE,
     experience |-> "none", statements |-> <<>>, attendance |-> <<>>, committees |-> FALSE]

Statement(text, date) ==
    [has_text |-> TRUE, text |-> text, has_date |-> date # NoText, date |-> date]

\* pages with every combination of sections
SectionPages ==
    { [party |-> q, county_text |-> c, election |-> e, contact |-> o, experience |-> x,
       statements |-> st, attendance |-> a, committees |-> m] :
        q \in {NoText, <<"O", "D", "M">>}, c \in {NoText, <<"K", "w", "a", "l", "e", " ", "C", "o", "u", "n", "t", "y">>},
        e \in BOOLEAN, o \in BOOLEAN, x \in {"none", "id", "class"},
        st \in {<<>>, <<Statement(<<"d", "a", "m">>, <<"2", "0", "2", "1", "-", "0", "5", "-", "1", "0">>)>>},
        a \in {<<>>, <<[has_present |-> TRUE, present |-> 8, has_absent |-> TRUE, absent |-> 2]>>},
        m \in BOOLEAN }

\* the dates a statement can carry: a year, a month and a day with a
\* separator, with and without text before and after
DateTexts ==
    { h \o y \o s \o m \o s \o <<"1", "0">> \o t :
        h \in {NoText, <<"x">>},
        y \in {<<"2", "0", "2", "1">>, <<"2", "0", "2">>, <<"0", "0", "0", "1">>, <<"9", "9", "9", "8">>},
        s \in {<<"-">>, <<"/">>},
        m \in {<<"0", "5">>, <<"5">>},
        t \in {NoText, <<"x">>, <<" ">>, <<"-", "7">>} }
    \cup {<<"1", "0", " ", "M", "a", "y", " ", "2", "0", "2", "1">>}

\* pages whose one statement carries a date
DatePages == { [BarePage EXCEPT !.statements = <<Statement(<<"d", "a", "m">>, d)>>] : d \in DateTexts }

\* a statement without a .statement-text element, with a blank text, with a text
StatementChoices ==
    { [Statement(NoText, NoText) EXCEPT !.has_text = FALSE],
      Statement(<<" ">>, NoText), Statement(<<"d", "a", "m">>, NoText), Statement(<<"x">>, NoText) }

\* pages with up to MaxStatements statements
PromisePages ==
    { [BarePage EXCEPT !.statements = st] : st \in SeqsUpTo(StatementChoices, MaxStatements) }

\* an attendance row: each of the present and absent counts is a number or
\* missing (the cell is not there or holds no digit)
AttendanceRows ==
    { [has_present |-> hp, present |-> IF hp THEN p ELSE 0,
       has_absent |-> ha, absent |-> IF ha THEN a ELSE 0] :
        hp \in BOOLEAN, p \in {0, 3}, ha \in BOOLEAN, a \in {0, 1} }

\* pages with up to MaxRows attendance rows
AttendancePages ==
    { [BarePage EXCEPT !.attendance = a] : a \in SeqsUpTo(AttendanceRows, MaxRows) }

DetailPages == SectionPages \cup DatePages \cup PromisePages \cup AttendancePages

ParseDetailPage ==
    /\ ~ detail.done
    /\ detail' = [detail EXCEPT !.done = TRUE,
                                !.result = ParseDetail(detail.page, Candidate(1, "senate"))]
    /\ UNCHANGED <<fetch, pag, web, det, cfg, top, call, tasks, files, hist,
                   promise, enrich, stats>>

----------------------------------------------------------------------------
(* Statistics Aggregator: generate_statistics, lines 667-705.  A leader is a
   dictionary whose keys may be missing: has_k = FALSE stands for a missing k *)

\* `if k not in d: d[k] = 0` followed by `d[k] += 1`
Bump(counts, k) ==
    IF k \in DOMAIN counts THEN [counts EXCEPT ![k] = @ + 1] ELSE counts @@ (k :> 1)

\* leader.get('category', 'unknown')
CategoryKey(leader) == IF leader.has_category THEN leader.category ELSE "unknown"

\* the faulty variant of PartyKey: no default for a missing party
PartyKeyStrict(leader) == leader.party
\* leader.get('party', 'unknown')
PartyKey(leader) == IF leader.has_party THEN leader.party ELSE "unknown"

\* lines 699-705: the bucket of by_gender the leader is counted in
GenderKey(leader) ==
    LET name == IF leader.has_name THEN leader.name ELSE <<>>
        position == IF leader.has_position THEN leader.position ELSE <<>>
    IN IF \/ StartsWith(name, <<"M", "s", ".">>)
          \/ StartsWith(name, <<"M", "r", "s", ".">>)
          \/ Contains(<<"w", "o", "m", "e", "n">>, LowerText(position))
       THEN "female"
       ELSE IF StartsWith(name, <<"M", "r", ".">>) \/ StartsWith(name, <<"H", "o", "n", ".">>)
       THEN "male"
       ELSE "unknown"

\* lines 684-705: `for leader in all_leaders`, from the statistics st
RECURSIVE StatsLoop(_, _)
StatsLoop(leaders, st) ==
    IF leaders = <<>> THEN st
    ELSE LET leader == Head(leaders)
         IN StatsLoop(Tail(leaders),
                      [st EXCEPT !.by_category = Bump(@, CategoryKey(leader)),
                                 !.by_party = Bump(@, PartyKey(leader)),
                                 !.by_gender = Bump(@, GenderKey(leader))])

\* generate_statistics(all_leaders): the counts of statistics.json
generate_statistics(all_leaders) ==
    StatsLoop(all_leaders,
              [total_leaders |-> Len(all_leaders), by_category |-> <<>>, by_party |-> <<>>,
               by_gender |-> [k \in {"male", "female", "unknown"} |-> 0]])

\* the leaders generate_statistics is run on, every optional key being
\* present or missing
Leaders ==
    { [has_category |-> c # "", category |-> c, has_party |-> q # "", party |-> q,
       has_name |-> n # <<>>, name |-> n, has_position |-> o # <<>>, position |-> o] :
        c \in {"", "senate"}, q \in {"", "ODM"},
        n \in {<<>>, <<"M", "r", "s", ".", " ", "A">>, <<"H", "o", "n", ".", " ", "A">>, <<"A">>},
        o \in {<<>>, <<"W", "o", "m", "e", "n", " ", "R", "e", "p">>} }

GenerateStatistics ==
    /\ ~ stats.done
    /\ stats' = [stats EXCEPT !.done = TRUE, !.result = generate_statistics(stats.all_leaders)]
    /\ UNCHANGED <<fetch, pag, web, det, cfg, top, call, tasks, files, hist,
                   detail, promise, enrich>>

----------------------------------------------------------------------------
(* The site.  A URL's content is chosen when the URL is first fetched and is
   the same at every later fetch: web and det memoise it. *)

OrchLinks == {Url(BasePath, 1), Url(BasePath, 2)}
CountyUrl == Url(CountyPath, 0)
Counties == {[name |-> "Nairobi", url |-> CountyUrl]}
SeedUrls == {Url(NationalAssemblyPath, 0), Url(SenatePath, 0), CountyUrl}
ListUrls == SeedUrls \cup OrchLinks \cup {Url(CountyIndexPath, 0)}

UnknownPage == [kind |-> "unknown", cands |-> <<>>, links |-> <<>>, counties |-> <<>>]
ExhaustedPage == [kind |-> "exhausted", cands |-> <<>>, links |-> <<>>, counties |-> <<>>]

\* what a first fetch of a listing URL can find there.  Only a seed page's
\* numbered links and only the index page's county links are ever read
PageChoices(url, role) ==
    {ExhaustedPage} \cup
    CASE role = "seed" ->
           { [kind |-> "page", cands |-> c, links |-> l, counties |-> <<>>] :
               c \in CandLists(cfg.limits.pool[url]), l \in SeqsUpTo(OrchLinks, cfg.limits.links) }
      [] role = "page" ->
           { [kind |-> "page", cands |-> c, links |-> <<>>, counties |-> <<>>] :
               c \in CandLists(cfg.limits.pool[url]) }
      [] role = "index" ->
           { [kind |-> "page", cands |-> <<>>, links |-> <<>>, counties |-> k] :
               k \in SeqsUpTo(Counties, cfg.limits.counties) }

Resolve(url, role) == IF web[url].kind # "unknown" THEN {web[url]} ELSE PageChoices(url, role)

\* a detail page: fetched and saved ("ok"), never fetched ("exhausted"), or
\* fetched with the write of its file raising OSError ("savefail")
ResolveDet(profile_url) ==
    IF det[profile_url] # "unknown" THEN {det[profile_url]} ELSE cfg.limits.detail

\* `html = self.get_page(url)` followed by `if not html`: TRUE when html is
\* truthy.  Every attempt at an exhausted URL raises; a page answers at once
GotHtml(url, present) ==
    LET o == IF present THEN [ok |-> TRUE, text |-> "<html>"] ELSE [ok |-> FALSE, text |-> ""]
        f == RunFetch(NewFetch(url, DefaultRetryCount), [a \in 0..(DefaultRetryCount - 1) |-> o])
    IN ~ Falsy(f)

----------------------------------------------------------------------------
(* Orchestrator: the frame of scrape_leaders / scrape_leaders_threaded *)

NewCall(mode, url, category, subcategory) ==
    [mode |-> mode, url |-> url, category |-> category, subcategory |-> subcategory,
     pc |-> "seed", politicians |-> <<>>, pagination_urls |-> <<>>, page_idx |-> 1,
     i |-> 1, detailed_politicians |-> <<>>, ret |-> <<>>]

IdleCall == [NewCall("seq", FirstPageUrl, "national_assembly", "") EXCEPT !.pc = "idle"]

\* sources: for each politician accumulated by the call, the URL of the
\* listing page its card was parsed from
NewHist == [calls |-> <<>>, list_fetches |-> <<>>, detail_begun |-> FALSE,
            late_list |-> FALSE, writes |-> {}, overlap |-> FALSE, sources |-> <<>>]

\* lines 70-78 and 458-466: the seed page, its politicians, its pagination.
\* Iterating over the None that get_pagination_links can return raises
\* TypeError, which nothing in the function catches
SeedFetch ==
    /\ call.pc = "seed"
    /\ \E page \in Resolve(call.url, "seed") :
         /\ web' = [web EXCEPT ![call.url] = page]
         /\ LET links == get_pagination_links(page.links)
            IN call' =
                 IF ~ GotHtml(call.url, page.kind = "page")
                 THEN [call EXCEPT !.pc = "returned", !.ret = <<>>]
                 ELSE IF links.none
                 THEN [call EXCEPT !.pc = "raised",
                                   !.politicians = parse_politician_list_page(page, call.category)]
                 ELSE [call EXCEPT !.pc = "pages", !.page_idx = 1,
                                   !.politicians = parse_politician_list_page(page, call.category),
                                   !.pagination_urls = links.urls]
    /\ hist' = [hist EXCEPT !.list_fetches = Append(@, call.url),
                            !.late_list = @ \/ hist.detail_begun,
                            !.sources = [i \in DOMAIN parse_politician_list_page(
                                                      web'[call.url], call.category) |->
                                            call.url]]
    /\ UNCHANGED <<fetch, pag, det, cfg, top, tasks, files, units>>

\* lines 81-84 and 469-472: one iteration of `for page_url in pagination_urls`
PageFetch ==
    /\ call.pc = "pages"
    /\ call.page_idx <= Len(call.pagination_urls)
    /\ LET page_url == call.pagination_urls[call.page_idx]
       IN /\ \E page \in Resolve(page_url, "page") :
               /\ web' = [web EXCEPT ![page_url] = page]
               /\ LET page_html == IF GotHtml(page_url, page.kind = "page") THEN page
                                   ELSE ExhaustedPage
                  IN call' = [call EXCEPT
                         !.politicians = @ \o parse_politician_list_page(page_html, call.category),
                         !.page_idx = @ + 1]
          /\ hist' = [hist EXCEPT !.list_fetches = Append(@, page_url),
                                  !.late_list = @ \/ hist.detail_begun,
                                  !.sources = @ \o [i \in DOMAIN parse_politician_list_page(
                                                              web'[page_url], call.category) |->
                                                       page_url]]
    /\ UNCHANGED <<fetch, pag, det, cfg, top, tasks, files, units>>

\* a task of the executor: process_politician(politician), not yet started
QueuedTask(politician) ==
    [state |-> "queued", none |-> TRUE, rec |-> politician,
     path |-> [category |-> "", safe_id |-> <<>>]]

\* lines 86-87 and 474-499: the listing is complete; in threaded mode the
\* executor is created and every politician submitted to it, in list order
StartDetails ==
    /\ call.pc = "pages"
    /\ call.page_idx > Len(call.pagination_urls)
    /\ call' = [call EXCEPT !.pc = "details", !.i = 1, !.detailed_politicians = <<>>]
    /\ tasks' = IF call.mode = "thr"
                THEN [i \in 1..Len(call.politicians) |-> QueuedTask(call.politicians[i])]
                ELSE tasks
    /\ UNCHANGED <<fetch, pag, web, det, cfg, top, files, hist, units>>

\* lines 92-100 and 482-490 for one politician whose detail page does o:
\* the record built and the file save_politician_data opens for it
Detailed(politician, o, category, subcategory) ==
    LET detail_html == GotHtml(politician.profile_url, o # "exhausted")
        detailed_data == WithSubcategory(
                             parse_politician_detail_page(detail_html, politician), subcategory)
    IN [rec |-> detailed_data, path |-> SavePath(detailed_data, category),
        raises |-> (o = "savefail")]

\* the faulty variant of SeqOnError: the exception leaves scrape_leaders
SeqOnErrorAbort(c) == [c EXCEPT !.pc = "raised"]
\* lines 103-105: `except Exception: ... continue`
SeqOnError(c) == [c EXCEPT !.i = @ + 1]

\* lines 90-105: one iteration of `for politician in politicians`
SeqProcess ==
    /\ call.mode = "seq"
    /\ call.pc = "details"
    /\ call.i <= Len(call.politicians)
    /\ LET politician == call.politicians[call.i]
       IN \E o \in ResolveDet(politician.profile_url) :
            LET d == Detailed(politician, o, call.category, call.subcategory)
            IN /\ det' = [det EXCEPT ![politician.profile_url] = o]
               /\ IF d.raises
                  THEN /\ call' = SeqOnError(call)
                       /\ UNCHANGED files
                       /\ hist' = [hist EXCEPT !.detail_begun = TRUE]
                  ELSE /\ call' = [call EXCEPT !.i = @ + 1,
                                       !.detailed_politicians = Append(@, d.rec)]
                       /\ files' = WriteFile(files, d.path, d.rec)
                       /\ hist' = [hist EXCEPT !.detail_begun = TRUE,
                                       !.writes = @ \cup {[i |-> call.i, path |-> d.path]}]
    /\ UNCHANGED <<fetch, pag, web, cfg, top, tasks, units>>

\* lines 106-108
SeqReturn ==
    /\ call.mode = "seq"
    /\ call.pc = "details"
    /\ call.i > Len(call.politicians)
    /\ call' = [call EXCEPT !.pc = "returned", !.ret = call.detailed_politicians]
    /\ UNCHANGED <<fetch, pag, web, det, cfg, top, tasks, files, hist, units>>

\* the politicians whose process_politician is running on a worker
ActiveTasks == { i \in DOMAIN tasks : tasks[i].state \in {"fetching", "writing"} }

\* the faulty variant of WorkerFree: a thread per task, whatever the width
WorkerFreeUnbounded(n) == TRUE
\* ThreadPoolExecutor(max_workers=self.max_workers): a task leaves the queue
\* only while fewer than max_workers tasks are running
WorkerFree(n) == n < cfg.max_workers

\* line 499, executor.map: a worker takes the oldest queued task
TaskStart(i) ==
    /\ tasks[i].state = "queued"
    /\ \A j \in 1..(i - 1) : tasks[j].state # "queued"
    /\ WorkerFree(Cardinality(ActiveTasks))
    /\ tasks' = [tasks EXCEPT ![i].state = "fetching"]
    /\ hist' = [hist EXCEPT !.detail_begun = TRUE]
    /\ UNCHANGED <<fetch, pag, web, det, cfg, top, call, files, units>>

\* lines 482-490 and 507-521: the detail page is fetched and parsed and the
\* record's file is opened for writing; lines 493-495 when that raises
TaskFetched(i) ==
    /\ tasks[i].state = "fetching"
    /\ \E o \in ResolveDet(tasks[i].rec.profile_url) :
         LET d == Detailed(tasks[i].rec, o, call.category, call.subcategory)
         IN /\ det' = [det EXCEPT ![tasks[i].rec.profile_url] = o]
            /\ tasks' = IF d.raises
                        THEN [tasks EXCEPT ![i].state = "done", ![i].none = TRUE]
                        ELSE [tasks EXCEPT ![i].state = "writing", ![i].rec = d.rec,
                                           ![i].path = d.path]
    /\ UNCHANGED <<fetch, pag, web, cfg, top, call, files, hist, units>>

\* lines 521-522 and 492: json.dump, the file is closed, the record returned
TaskWritten(i) ==
    /\ tasks[i].state = "writing"
    /\ files' = WriteFile(files, tasks[i].path, tasks[i].rec)
    /\ tasks' = [tasks EXCEPT ![i].state = "done", ![i].none = FALSE]
    /\ hist' = [hist EXCEPT !.writes = @ \cup {[i |-> i, path |-> tasks[i].path]}]
    /\ UNCHANGED <<fetch, pag, web, det, cfg, top, call, units>>

\* the faulty variant of Joined: the results are collected without waiting
JoinedAtOnce(ts) == TRUE
\* the end of the `with ThreadPoolExecutor(...)` block: every task has finished
Joined(ts) == \A i \in DOMAIN ts : ts[i].state = "done"

\* the faulty variant of Results: the None results are not filtered out
ResultsUnfiltered(ts) == [i \in 1..Len(ts) |-> ts[i].rec]
\* the results of the tasks that returned a record, in submission order
RECURSIVE Results(_)
Results(ts) ==
    IF ts = <<>> THEN <<>>
    ELSE LET n == Len(ts)
             front == Results(SubSeq(ts, 1, n - 1))
         IN IF ts[n].state = "done" /\ ~ ts[n].none THEN Append(front, ts[n].rec) ELSE front

\* lines 499-505: list(executor.map(...)), without the None results
ThreadedReturn ==
    /\ call.mode = "thr"
    /\ call.pc = "details"
    /\ Joined(tasks)
    /\ call' = [call EXCEPT !.pc = "returned", !.ret = Results(tasks),
                            !.detailed_politicians = Results(tasks)]
    /\ UNCHANGED <<fetch, pag, web, det, cfg, top, tasks, files, hist, units>>

CategoryStep ==
    \/ SeedFetch
    \/ PageFetch
    \/ StartDetails
    \/ SeqProcess
    \/ SeqReturn
    \/ \E i \in DOMAIN tasks : TaskStart(i)
    \/ \E i \in DOMAIN tasks : TaskFetched(i)
    \/ \E i \in DOMAIN tasks : TaskWritten(i)
    \/ ThreadedReturn

----------------------------------------------------------------------------
(* The runner with one category selected, run once without and once with
   threading against the same site *)

Seeds ==
    { [url |-> Url(NationalAssemblyPath, 0), category |-> "national_assembly", subcategory |-> ""],
      [url |-> Url(SenatePath, 0), category |-> "senate", subcategory |-> ""],
      [url |-> CountyUrl, category |-> "county_assemblies", subcategory |-> "Nairobi"] }

DetailOutcomes == {"ok", "exhausted", "savefail"}

IdleTop == [pc |-> "idle", waiting |-> FALSE, run |-> 1, rets |-> <<>>,
            national_assembly |-> <<>>, senate |-> <<>>, county_assemblies |-> <<>>,
            county_links |-> <<>>, k |-> 1, summaries |-> {}, all_leaders |-> <<>>,
            county_files |-> {}, statistics |-> [total_leaders |-> 0, by_category |-> {}]]

\* a scrapeCategory call begins: its history starts afresh
CallHist(category) ==
    [NewHist EXCEPT !.calls = Append(hist.calls, category),
                    !.overlap = hist.overlap \/ ActiveTasks # {}]

\* mzalendo_runner.main, lines 133-153 and 182-190: use_threading picks the function
RunnerCall ==
    /\ top.pc = "ready"
    /\ top.run <= Len(cfg.modes)
    /\ call' = NewCall(cfg.modes[top.run], cfg.seed.url, cfg.seed.category, cfg.seed.subcategory)
    /\ top' = [top EXCEPT !.pc = "waiting"]
    /\ hist' = [CallHist(cfg.seed.category) EXCEPT !.calls = <<cfg.seed.category>>]
    /\ UNCHANGED <<fetch, pag, web, det, cfg, tasks, files, units>>

\* the call has returned its list, or raised; the runner finds the output
\* directory as the call left it
RunnerCollect ==
    /\ top.pc = "waiting"
    /\ call.pc \in {"returned", "raised"}
    /\ top' = [top EXCEPT !.pc = "ready", !.run = @ + 1,
                          !.rets = Append(@, [status |-> call.pc, list |-> call.ret,
                                              files |-> files])]
    /\ call' = [call EXCEPT !.pc = "idle"]
    /\ UNCHANGED <<fetch, pag, web, det, cfg, tasks, files, hist, units>>

\* the frames of the units that are not running
IdleDetail == [page |-> BarePage, done |-> FALSE, result |-> <<>>]
IdleEnrich == [politicians_data |-> <<>>, calls |-> 0, once |-> <<>>, enriched_data |-> <<>>]
IdleStats == [all_leaders |-> <<>>, done |-> FALSE, result |-> <<>>]

IdleUnits ==
    /\ detail = IdleDetail
    /\ promise = IdlePromise
    /\ enrich = IdleEnrich
    /\ stats = IdleStats

Quiet ==
    /\ fetch = IdleFetch
    /\ pag = IdlePag
    /\ IdleUnits

Init ==
    /\ Quiet
    /\ web = [u \in ListUrls |-> UnknownPage]
    /\ det = [u \in ProfileUrls |-> "unknown"]
    /\ cfg \in { [max_workers |-> w, modes |-> <<"seq", "thr">>, seed |-> s,
                  limits |-> [pool |-> [u \in ListUrls |-> DOMAIN Profiles],
                              links |-> MaxLinks, counties |-> 0,
                              detail |-> DetailOutcomes]] :
                 w \in 1..MaxWorkers, s \in Seeds }
    /\ top = [IdleTop EXCEPT !.pc = "ready"]
    /\ call = IdleCall
    /\ tasks = <<>>
    /\ files = {}
    /\ hist = NewHist

Next ==
    \/ RunnerCall
    \/ RunnerCollect
    \/ CategoryStep

Spec == Init /\ [][Next]_vars

----------------------------------------------------------------------------
(* Enricher and scrape_all *)

\* constituency_county_map, as a set of pairs
ConstituencyCountyMap ==
    { <<"Tarbaj", "Wajir">>, <<"Lafey", "Mandera">>, <<"Kamukunji", "Nairobi">>,
      <<"Rongo", "Migori">>, <<"Tigania East", "Meru">>, <<"Wajir East", "Wajir">>,
      <<"Wajir South", "Wajir">>, <<"Bura", "Tana River">>, <<"Lomas", "Tana River">>,
      <<"Bomachoge Chache", "Kisii">>, <<"Ijara", "Garissa">>, <<"Nyali", "Mombasa">>,
      <<"Rangwe", "Homa Bay">>, <<"Turkana South", "Turkana">> }

\* the faulty variant of EnrichOne: a county already there is overwritten
EnrichOneOverwrite(politician) ==
    IF politician.constituency # ""
       /\ \E m \in ConstituencyCountyMap : m[1] = politician.constituency
    THEN [politician EXCEPT !.county =
              (CHOOSE m \in ConstituencyCountyMap : m[1] = politician.constituency)[2]]
    ELSE politician
\* lines 547-550 for one politician
EnrichOne(politician) ==
    IF politician.constituency # "" /\ politician.county = ""
       /\ \E m \in ConstituencyCountyMap : m[1] = politician.constituency
    THEN [politician EXCEPT !.county =
              (CHOOSE m \in ConstituencyCountyMap : m[1] = politician.constituency)[2]]
    ELSE politician

enrich_county_data(politicians_data) ==
    [i \in 1..Len(politicians_data) |-> EnrichOne(politicians_data[i])]

\* the records enrich_county_data is run on: a constituency of the table, one
\* that is not in it or none, with and without a county
EnrichRecords ==
    { [Candidate(1, "senate") EXCEPT !.constituency = c, !.county = k] :
        c \in {"", "Kamukunji", "Nyali", "Westlands"}, k \in {"", "Kwale"} }

\* a call of enrich_county_data, on the list the previous call returned if any
EnrichCall ==
    /\ enrich.calls < 2
    /\ LET enriched_data == enrich_county_data(IF enrich.calls = 0 THEN enrich.politicians_data
                                                 ELSE enrich.enriched_data)
       IN enrich' = [enrich EXCEPT !.calls = @ + 1, !.enriched_data = enriched_data,
                                   !.once = IF enrich.calls = 0 THEN enriched_data ELSE @]
    /\ UNCHANGED <<fetch, pag, web, det, cfg, top, call, tasks, files, hist,
                   detail, promise, stats>>

\* the arguments of the scrape_function call scrape_all makes at t.pc
AllArgs(t) ==
    CASE t.pc = "na" ->
           [url |-> Url(NationalAssemblyPath, 0), category |-> "national_assembly", subcategory |-> ""]
      [] t.pc = "senate" ->
           [url |-> Url(SenatePath, 0), category |-> "senate", subcategory |-> ""]
      [] t.pc = "county" ->
           [url |-> t.county_links[t.k].url, category |-> "county_assemblies",
            subcategory |-> t.county_links[t.k].name]

\* lines 561-575 and 586-594: scrape_function(url, category[, county_name])
AllCall ==
    /\ ~ top.waiting
    /\ \/ top.pc \in {"na", "senate"}
       \/ top.pc = "county" /\ top.k <= Len(top.county_links)
    /\ LET a == AllArgs(top)
       IN /\ call' = NewCall(cfg.modes[1], a.url, a.category, a.subcategory)
          /\ hist' = CallHist(a.category)
    /\ top' = [top EXCEPT !.waiting = TRUE]
    /\ UNCHANGED <<fetch, pag, web, det, cfg, tasks, files, units>>

\* the call returns its list to scrape_all
AllCollect ==
    /\ top.waiting
    /\ call.pc = "returned"
    /\ top' = CASE top.pc = "na" ->
                     [top EXCEPT !.waiting = FALSE, !.national_assembly = call.ret, !.pc = "senate"]
                [] top.pc = "senate" ->
                     [top EXCEPT !.waiting = FALSE, !.senate = call.ret, !.pc = "index"]
                [] top.pc = "county" ->
                     [top EXCEPT !.waiting = FALSE, !.county_assemblies = @ \o call.ret,
                                 !.k = @ + 1]
    /\ call' = [call EXCEPT !.pc = "idle"]
    /\ UNCHANGED <<fetch, pag, web, det, cfg, tasks, files, hist, units>>

\* the call raises: nothing in scrape_all catches it
AllRaise ==
    /\ top.waiting
    /\ call.pc = "raised"
    /\ top' = [top EXCEPT !.waiting = FALSE, !.pc = "raised"]
    /\ call' = [call EXCEPT !.pc = "idle"]
    /\ UNCHANGED <<fetch, pag, web, det, cfg, tasks, files, hist, units>>

\* lines 579-584: the county-assemblies index and its .county-assembly-link elements
AllIndex ==
    /\ top.pc = "index"
    /\ LET index_url == Url(CountyIndexPath, 0)
       IN \E page \in Resolve(index_url, "index") :
            /\ web' = [web EXCEPT ![index_url] = page]
            /\ top' = [top EXCEPT !.pc = "county", !.k = 1, !.county_assemblies = <<>>,
                           !.county_links = IF GotHtml(index_url, page.kind = "page")
                                            THEN page.counties ELSE <<>>]
    /\ UNCHANGED <<fetch, pag, det, cfg, call, tasks, files, hist, units>>

\* generate_county_data, lines 640-660: the leaders that have a county, by county
CountyFiles(all_leaders) ==
    { [county |-> c, data |-> SelectSeq(all_leaders, LAMBDA r : r.county = c)] :
        c \in { all_leaders[i].county : i \in DOMAIN all_leaders } \ {""} }

\* generate_statistics, lines 669-689, as far as the records of the model go
Statistics(all_leaders) ==
    [total_leaders |-> Len(all_leaders),
     by_category |->
        { [category |-> c,
           count |-> Cardinality({ i \in DOMAIN all_leaders : all_leaders[i].category = c })] :
          c \in { all_leaders[i].category : i \in DOMAIN all_leaders } }]

\* lines 598-618: the enrichment pass, the summary files, all_leaders.json,
\* the county files and the statistics
AllFinish ==
    /\ ~ top.waiting
    /\ top.pc = "county"
    /\ top.k > Len(top.county_links)
    /\ LET na == enrich_county_data(top.national_assembly)
           sen == enrich_county_data(top.senate)
           all_leaders == na \o sen \o top.county_assemblies
       IN top' = [top EXCEPT !.pc = "done", !.national_assembly = na, !.senate = sen,
                      !.summaries = { [category |-> "national_assembly", data |-> na],
                                      [category |-> "senate", data |-> sen],
                                      [category |-> "county_assemblies",
                                       data |-> top.county_assemblies] },
                      !.all_leaders = all_leaders,
                      !.county_files = CountyFiles(all_leaders),
                      !.statistics = Statistics(all_leaders)]
    /\ UNCHANGED <<fetch, pag, web, det, cfg, call, tasks, files, hist, units>>

\* the site scrape_all is run against: every profile is listed by the pages
\* of its own house only
HousePools ==
    [u \in ListUrls |->
        CASE u.path = NationalAssemblyPath -> {1}
          [] u.path = SenatePath -> {2}
          [] u.path = CountyPath -> {1}
          [] u = Url(BasePath, 2) -> {2}
          [] OTHER -> {}]

InitAll ==
    /\ Quiet
    /\ web = [u \in ListUrls |-> UnknownPage]
    /\ det = [u \in ProfileUrls |-> "unknown"]
    /\ cfg \in { [max_workers |-> w, modes |-> <<m>>, seed |-> s,
                  limits |-> [pool |-> HousePools, links |-> MaxLinksAll,
                              counties |-> MaxCounties, detail |-> DetailOutcomes]] :
                 w \in 1..MaxWorkers, m \in {"seq", "thr"},
                 s \in {x \in Seeds : x.category = "national_assembly"} }
    /\ top = [IdleTop EXCEPT !.pc = "na"]
    /\ call = IdleCall
    /\ tasks = <<>>
    /\ files = {}
    /\ hist = NewHist

NextAll ==
    \/ AllCall
    \/ AllCollect
    \/ AllRaise
    \/ AllIndex
    \/ AllFinish
    \/ CategoryStep

SpecAll == InitAll /\ [][NextAll]_vars

----------------------------------------------------------------------------
(* The Fetcher alone: one call of get_page, each request doing as it pleases *)

IdleSite ==
    /\ web = [u \in ListUrls |-> UnknownPage]
    /\ det = [u \in ProfileUrls |-> "unknown"]
    /\ cfg = [max_workers |-> DefaultMaxWorkers, modes |-> <<>>,
              seed |-> CHOOSE x \in Seeds : x.category = "national_assembly",
              limits |-> [pool |-> HousePools, links |-> 0, counties |-> 0,
                          detail |-> DetailOutcomes]]
    /\ top = IdleTop
    /\ call = IdleCall
    /\ tasks = <<>>
    /\ files = {}
    /\ hist = NewHist

InitFetch ==
    /\ fetch \in { NewFetch(u, n) : u \in FetchUrls, n \in 0..MaxRetry }
    /\ pag = IdlePag
    /\ IdleSite
    /\ IdleUnits

NextFetch == GetPageStep

\* the thread that runs the loop keeps running it
SpecFetch == InitFetch /\ [][NextFetch]_vars /\ WF_vars(NextFetch)

(* The pagination extractor alone, on every short list of numbered links *)

InitPag ==
    /\ fetch = IdleFetch
    /\ pag \in { [IdlePag EXCEPT !.links = l] : l \in SeqsUpTo(LinkUrls, MaxLinks) }
    /\ IdleSite
    /\ IdleUnits

NextPag == ExtractPagination

SpecPag == InitPag /\ [][NextPag]_vars

(* The runner run twice in the same mode against the same site *)

InitTwice ==
    /\ Quiet
    /\ web = [u \in ListUrls |-> UnknownPage]
    /\ det = [u \in ProfileUrls |-> "unknown"]
    /\ cfg \in { [max_workers |-> w, modes |-> <<m, m>>, seed |-> s,
                  limits |-> [pool |-> [u \in ListUrls |-> DOMAIN Profiles],
                              links |-> MaxLinksAll, counties |-> 0,
                              detail |-> DetailOutcomes]] :
                 w \in 1..MaxWorkers, m \in {"seq", "thr"}, s \in Seeds }
    /\ top = [IdleTop EXCEPT !.pc = "ready"]
    /\ call = IdleCall
    /\ tasks = <<>>
    /\ files = {}
    /\ hist = NewHist

SpecTwice == InitTwice /\ [][Next]_vars

(* The units alone: nothing else runs *)

Off ==
    /\ fetch = IdleFetch
    /\ pag = IdlePag
    /\ IdleSite

\* categorize_promise on every text of PromiseTexts
InitPromise ==
    /\ Off
    /\ promise \in { [IdlePromise EXCEPT !.promise_text = t] : t \in PromiseTexts }
    /\ detail = IdleDetail
    /\ enrich = IdleEnrich
    /\ stats = IdleStats

NextPromise == Categorize

SpecPromise == InitPromise /\ [][NextPromise]_vars

\* enrich_county_data, called twice, on every short list of EnrichRecords
InitEnrich ==
    /\ Off
    /\ enrich \in { [IdleEnrich EXCEPT !.politicians_data = l] :
                      l \in SeqsUpTo(EnrichRecords, MaxRecords) }
    /\ detail = IdleDetail
    /\ promise = IdlePromise
    /\ stats = IdleStats

NextEnrich == EnrichCall

SpecEnrich == InitEnrich /\ [][NextEnrich]_vars

\* generate_statistics on every small corpus of Leaders
InitStats ==
    /\ Off
    /\ stats \in { [IdleStats EXCEPT !.all_leaders = l] : l \in SeqsUpTo(Leaders, MaxLeaders) }
    /\ detail = IdleDetail
    /\ promise = IdlePromise
    /\ enrich = IdleEnrich

NextStats == GenerateStatistics

SpecStats == InitStats /\ [][NextStats]_vars

\* parse_politician_detail_page on every page of DetailPages
InitDetail ==
    /\ Off
    /\ detail \in { [IdleDetail EXCEPT !.page = g] : g \in DetailPages }
    /\ promise = IdlePromise
    /\ enrich = IdleEnrich
    /\ stats = IdleStats

NextDetail == ParseDetailPage

SpecDetail == InitDetail /\ [][NextDetail]_vars

----------------------------------------------------------------------------
(* Properties *)

IsPrefix(s, t) == Len(s) <= Len(t) /\ \A i \in 1..Len(s) : s[i] = t[i]

\* the politicians of the running call whose detail page does o
PoliticiansDoing(o) ==
    { i \in DOMAIN call.politicians : det[call.politicians[i].profile_url] = o }

\* C1: a candidate whose detail-page fetch failed after all retries is absent
\* from the list scrapeCategory returns, and no per-record file is written for
\* it, in sequential and in threaded mode.
C1_FailedDetailDropped ==
    /\ call.pc = "returned" =>
         \A k \in DOMAIN call.ret : det[call.ret[k].profile_url] # "exhausted"
    /\ \A w \in hist.writes : w.i \notin PoliticiansDoing("exhausted")

\* C2: a failure while processing one candidate never prevents the others from
\* being processed: no exception of the detail stage leaves the call, and at
\* its return every candidate whose own detail page was fetched and saved has
\* its file written and its record in the returned list, in both modes.
C2_SiblingsSurvive ==
    /\ call.pc = "raised" => ~ hist.detail_begun
    /\ call.pc = "returned" =>
         \A i \in PoliticiansDoing("ok") :
            /\ \E w \in hist.writes :
                  w.i = i /\ \E f \in files : f.path = w.path
            /\ \E k \in DOMAIN call.ret :
                  /\ call.ret[k].profile_url = call.politicians[i].profile_url
                  /\ call.ret[k].has_id

\* a threaded call has returned, one of its candidates having failed and
\* another one succeeded
C2_Witness ==
    /\ call.pc = "returned"
    /\ call.mode = "thr"
    /\ PoliticiansDoing("savefail") # {}
    /\ PoliticiansDoing("ok") # {}

\* the records of a list, as a set keyed by id (a record without an id has no key)
LeaderSet(list) ==
    { [has_id |-> list[k].has_id, id |-> list[k].id, rec |-> list[k]] : k \in DOMAIN list }

\* C3: against the same site (every URL doing the same at each fetch), the
\* sequential and the threaded scrape of a category end the same way and
\* return the same set of records keyed by id, for every pool width and
\* every interleaving of the tasks.
C3_ModesAgree ==
    Len(top.rets) = 2 =>
        /\ top.rets[1].status = top.rets[2].status
        /\ LeaderSet(top.rets[1].list) = LeaderSet(top.rets[2].list)

\* both runs have returned two records or more, a candidate having been dropped
C3_Witness ==
    /\ Len(top.rets) = 2
    /\ top.rets[2].status = "returned"
    /\ Len(top.rets[2].list) >= 2
    /\ Len(top.rets[2].list) < Len(call.politicians)
    /\ cfg.max_workers >= 2

\* C4: in threaded mode no two tasks of a run have the same per-record file
\* open for writing: every task writes a path of its own.
C4_DistinctPaths ==
    \A i, j \in DOMAIN tasks :
        (i # j /\ tasks[i].state = "writing" /\ tasks[j].state = "writing")
            => tasks[i].path # tasks[j].path

\* what get_page has done so far: never more than retry_count requests, none
\* after a successful one, and on return None exactly when every one of the
\* retry_count requests raised, else the body of the successful request
C5_Safe ==
    LET n == Len(fetch.log)
    IN /\ fetch.requests = n
       /\ n <= fetch.retry_count
       /\ \A k \in 1..(n - 1) : ~ fetch.log[k].ok
       /\ fetch.status = "running" => \A k \in 1..n : ~ fetch.log[k].ok
       /\ fetch.status = "returned" =>
            /\ fetch.none <=> (n = fetch.retry_count /\ \A k \in 1..n : ~ fetch.log[k].ok)
            /\ ~ fetch.none => (fetch.log[n].ok /\ fetch.text = fetch.log[n].text)

\* C5: get_page always returns, after at most retry_count requests; it stops
\* at the first successful request and returns its body, and it returns None
\* exactly when all retry_count requests failed.
C5_FetchTerminates == []C5_Safe /\ <>(fetch.status = "returned")

\* the default three attempts, the second of which succeeded
C5_Witness ==
    /\ fetch.status = "returned"
    /\ fetch.retry_count = DefaultRetryCount
    /\ ~ fetch.none
    /\ fetch.requests = 2

\* C6: the number of candidates whose detail processing is in progress at the
\* same time never exceeds max_workers.
C6_PoolBound == Cardinality(ActiveTasks) <= cfg.max_workers

\* a pool of two workers is full and a third candidate waits
C6_Witness ==
    /\ cfg.max_workers = 2
    /\ Cardinality(ActiveTasks) = 2
    /\ \E i \in DOMAIN tasks : tasks[i].state = "queued"

\* C7: within a scrapeCategory call the listing pages are fetched in order,
\* the seed first and then the pagination URLs as listed, all of them before
\* the first detail page; in scrape_all the calls are made in the order
\* national assembly, senate, county sub-listings, and no task of a call is
\* still running when the call has returned or the next one has begun.
C7_Sequencing ==
    /\ IsPrefix(hist.list_fetches, <<call.url>> \o call.pagination_urls)
    /\ ~ hist.late_list
    /\ hist.detail_begun =>
         /\ call.pc \in {"details", "returned", "idle"}
         /\ hist.list_fetches = <<call.url>> \o call.pagination_urls
    /\ ActiveTasks # {} => call.pc = "details"
    /\ ~ hist.overlap
    /\ Len(hist.calls) <= 2 + Len(top.county_links)
    /\ \A k \in DOMAIN hist.calls :
         hist.calls[k] = CASE k = 1 -> "national_assembly"
                           [] k = 2 -> "senate"
                           [] OTHER -> "county_assemblies"

\* a threaded scrape_all is through its three calls, the last with details
C7_Witness ==
    /\ top.pc = "done"
    /\ cfg.modes = <<"thr">>
    /\ Len(hist.calls) = 3
    /\ Len(hist.list_fetches) >= 2
    /\ hist.detail_begun

\* C8: a scrapeCategory call never ends in an error: with the seed fetch
\* exhausted it returns the empty list having fetched nothing else, and with
\* the seed fetched it runs to its return whatever the seed's numbered links.
C8_NeverAborts ==
    /\ call.pc # "raised"
    /\ (call.pc = "returned" /\ web[call.url].kind = "exhausted") =>
          (call.ret = <<>> /\ hist.list_fetches = <<call.url>>)

\* a link that encodes page 1
EncodesPage1(url) == url.page = 1

\* C9: for a page with at least one numbered link, get_pagination_links
\* returns the numbered links, each once and in first-seen order, with the
\* canonical first-page URL in front if and only if no link encodes page 1.
C9_PaginationList ==
    (pag.done /\ pag.links # <<>>) =>
        /\ ~ pag.result.none
        /\ pag.result.urls =
             Dedup((IF \E i \in DOMAIN pag.links : EncodesPage1(pag.links[i])
                    THEN <<>> ELSE <<FirstPageUrl>>) \o pag.links, {})

\* the running call got its seed page, which has no numbered link
SeedWithoutLinks ==
    /\ call.pc \in {"pages", "details", "returned", "raised"}
    /\ web[call.url].kind = "page"
    /\ web[call.url].links = <<>>

\* C10 as stated: with no numbered link on the seed page the extractor yields
\* no URL and scrapeCategory fetches no listing page but the seed.
C10_NoLinksNoUrls ==
    SeedWithoutLinks =>
        /\ call.pagination_urls = <<>>
        /\ hist.list_fetches = <<call.url>>

\* C10, amended: with no numbered link on the seed page the extractor yields
\* exactly the synthesized first-page URL, and scrapeCategory fetches exactly
\* that one listing page after the seed.
C10_NoLinksFirstPage ==
    SeedWithoutLinks =>
        /\ call.pagination_urls = <<FirstPageUrl>>
        /\ IsPrefix(hist.list_fetches, <<call.url, FirstPageUrl>>)
        /\ call.pc # "pages" => hist.list_fetches = <<call.url, FirstPageUrl>>
        /\ call.pc # "raised"

\* a senate scrape whose seed had no numbered link has returned
C10_Witness ==
    /\ SeedWithoutLinks
    /\ call.pc = "returned"
    /\ call.category = "senate"
    /\ hist.list_fetches = <<Url(SenatePath, 0), FirstPageUrl>>

\* the categories in the order the classifier declares them
DeclaredOrder ==
    <<"Education", "Healthcare", "Infrastructure", "Water", "Agriculture", "Economy", "Security">>

\* the keywords of a category
KeywordsOf(c) ==
    LET k == CHOOSE k \in DOMAIN categories_keywords : categories_keywords[k].category = c
    IN { categories_keywords[k].keywords[j] : j \in DOMAIN categories_keywords[k].keywords }

\* keyword kw occurs in text t at some position, letter case ignored
OccursIgnoringCase(kw, t) ==
    \E i \in 0..(Len(t) - Len(kw)) : \A j \in 1..Len(kw) : Lower(t[i + j]) = Lower(kw[j])

\* the declared positions of the categories one of whose keywords occurs in t
HitCategories(t) ==
    { n \in DOMAIN DeclaredOrder : \E kw \in KeywordsOf(DeclaredOrder[n]) : OccursIgnoringCase(kw, t) }

\* C14: categorize returns the earliest category of the declared order one of
\* whose keywords occurs in the text as a case-insensitive substring, and
\* Other exactly when no keyword of any category occurs.
C14_FirstMatch ==
    promise.done =>
        LET hits == HitCategories(promise.promise_text)
        IN /\ (promise.category = "Other") <=> (hits = {})
           /\ hits # {} =>
                 \E n \in hits : /\ promise.category = DeclaredOrder[n]
                                  /\ \A m \in hits : n <= m

\* "School HOSPITAL", which has an upper-case keyword of Healthcare after one
\* of Education, has been classified as Education
C14_Witness ==
    /\ promise.done
    /\ promise.promise_text = <<"S", "c", "h", "o", "o", "l", " ", "H", "O", "S", "P", "I", "T", "A", "L">>
    /\ promise.category = "Education"

\* the county the static table gives for a constituency ("": not a key)
TableCounty(constituency) ==
    IF \E m \in ConstituencyCountyMap : m[1] = constituency
    THEN (CHOOSE m \in ConstituencyCountyMap : m[1] = constituency)[2]
    ELSE ""

\* list out is list in with the county filled where it was missing, the
\* constituency is there and the table has it, and nothing else changed
FilledFrom(out, in) ==
    /\ Len(out) = Len(in)
    /\ \A i \in DOMAIN in :
          IF in[i].county = "" /\ in[i].constituency # "" /\ TableCounty(in[i].constituency) # ""
          THEN out[i] = [in[i] EXCEPT !.county = TableCounty(in[i].constituency)]
          ELSE out[i] = in[i]

\* C15: enrich changes a record only by setting county, and only when the
\* record has no county, has a constituency and the table has that
\* constituency; every other record is returned unchanged, the list keeps its
\* records and their order, and a second application changes nothing.
C15_EnrichFrame ==
    /\ enrich.calls >= 1 => FilledFrom(enrich.once, enrich.politicians_data)
    /\ enrich.calls = 2 => enrich.enriched_data = enrich.once

\* enrich has run twice on a list of a record it fills and one it must leave alone
C15_Witness ==
    /\ enrich.calls = 2
    /\ \E i, j \in DOMAIN enrich.politicians_data :
          /\ enrich.politicians_data[i].county = ""
          /\ enrich.once[i].county = "Nairobi"
          /\ enrich.politicians_data[j].county = "Kwale"
          /\ enrich.politicians_data[j].constituency = "Nyali"

\* no profile is listed by two pages of the site (and none twice by one page:
\* a page's cards are distinct profiles)
SiteListsOnce ==
    \A u1, u2 \in ListUrls :
        u1 # u2 => \A i \in DOMAIN web[u1].cands, j \in DOMAIN web[u2].cands :
                      web[u1].cands[i] # web[u2].cands[j]

\* no two records of a list have the same profile_url
DistinctProfileUrls(list) ==
    \A i, j \in DOMAIN list : i # j => list[i].profile_url # list[j].profile_url

\* C11: on a site that lists every profile once, no two records of the list
\* scrapeCategory returns, nor of the corpus scrape_all writes, have the same
\* profile_url.
C11_UniqueProfileUrl ==
    SiteListsOnce =>
        /\ call.pc = "returned" => DistinctProfileUrls(call.ret)
        /\ top.pc = "done" => DistinctProfileUrls(top.all_leaders)

\* a record with no county whose constituency the table has
Fillable(r) == r.county = "" /\ r.constituency # "" /\ TableCounty(r.constituency) # ""

\* C16: when scrape_all has written its outputs, no record of a category
\* summary or of the corpus-wide file has a missing county that the table
\* would have filled: every record went through the Enricher.
C16_AllEnriched ==
    top.pc = "done" =>
        /\ \A i \in DOMAIN top.all_leaders : ~ Fillable(top.all_leaders[i])
        /\ \A f \in top.summaries : \A i \in DOMAIN f.data : ~ Fillable(f.data[i])

\* C17: a call in which the write of a record's file failed does not return
\* normally: the failure reaches the caller of scrapeCategory.
C17_WriteFailurePropagates ==
    call.pc = "returned" => PoliticiansDoing("savefail") = {}

\* C18: two runs of the pipeline in the same mode against the same site leave
\* the same per-record files with the same content, whatever the mode, the
\* pool width, the interleaving of the tasks and the ids of the candidates.
C18_RerunSameFiles ==
    Len(top.rets) = 2 => top.rets[1].files = top.rets[2].files

\* the sum of the counts of a mapping
RECURSIVE SumCounts(_)
SumCounts(counts) ==
    IF DOMAIN counts = {} THEN 0
    ELSE LET k == CHOOSE k \in DOMAIN counts : TRUE
         IN counts[k] + SumCounts([j \in DOMAIN counts \ {k} |-> counts[j]])

\* the mapping that counts each leader of the corpus once, under key(leader)
CountedOnce(counts, all_leaders, key(_)) ==
    /\ DOMAIN counts = { key(all_leaders[i]) : i \in DOMAIN all_leaders }
    /\ \A k \in DOMAIN counts :
          counts[k] = Cardinality({ i \in DOMAIN all_leaders : key(all_leaders[i]) = k })

\* C19: generate_statistics returns for every corpus, whatever optional keys
\* its leaders lack; total_leaders is the corpus size; by_category and
\* by_party count each leader once, under unknown when the key is missing;
\* by_gender counts each leader in one bucket; each mapping sums to the total.
C19_CountsEveryLeader ==
    stats.done =>
        LET n == Len(stats.all_leaders)
            r == stats.result
        IN /\ r.total_leaders = n
           /\ CountedOnce(r.by_category, stats.all_leaders,
                          LAMBDA l : IF l.has_category THEN l.category ELSE "unknown")
           /\ CountedOnce(r.by_party, stats.all_leaders,
                          LAMBDA l : IF l.has_party THEN l.party ELSE "unknown")
           /\ SumCounts(r.by_category) = n
           /\ SumCounts(r.by_party) = n
           /\ DOMAIN r.by_gender = {"male", "female", "unknown"}
           /\ SumCounts(r.by_gender) = n

\* the statistics of two leaders, one with no party, no category and no name,
\* the other with all three
C19_Witness ==
    /\ stats.done
    /\ Len(stats.all_leaders) = 2
    /\ ~ stats.all_leaders[1].has_party
    /\ ~ stats.all_leaders[1].has_category
    /\ ~ stats.all_leaders[1].has_name
    /\ stats.all_leaders[2].has_party
    /\ stats.all_leaders[2].has_category
    /\ stats.result.by_party["unknown"] = 1
    /\ stats.result.by_gender["male"] = 1

\* the whole text has the form YYYY-MM-DD
IsIsoDate(t) ==
    /\ Len(t) = 10
    /\ \A i \in {1, 2, 3, 4, 6, 7, 9, 10} : IsDigit(t[i])
    /\ t[5] = "-" /\ t[8] = "-"

\* the statements of a page that have a text, in page order
WithText(statements) ==
    SelectSeq(statements, LAMBDA st : st.has_text /\ Strip(st.text) # <<>>)

\* C12: whatever happens in one sub-section of parse_politician_detail_page,
\* every other section the page has is in the returned record, and so are
\* the derived fields: an exception in one section skips no other section.
C12_SectionsIndependent ==
    detail.done =>
        LET g == detail.page
            r == detail.result
        IN /\ g.party # NoText => r.has_party
           /\ g.county_text # NoText => r.has_county
           /\ g.election => r.has_election
           /\ g.contact => r.has_contact
           /\ g.experience = "id" => r.has_education
           /\ (/\ WithText(g.statements) # <<>>
               /\ \A i \in DOMAIN g.statements :
                     g.statements[i].has_date => IsIsoDate(Strip(g.statements[i].date)))
                 => (r.has_promises /\ r.has_keyAchievements)
           /\ g.attendance # <<>> => (r.has_attendance /\ r.has_approvalRating)
           /\ g.committees => r.has_committees

\* C13: each promise made from a statement with a date has that date as
\* madeDate; it has a dueDate exactly when the whole madeDate has the form
\* YYYY-MM-DD, the dueDate being the year plus 3 and the same month and day;
\* any other date leaves the promise without dueDate and the parse unharmed.
C13_DueDate ==
    (detail.done /\ detail.page.experience # "class") =>
        LET kept == WithText(detail.page.statements)
            r == detail.result
        IN /\ ~ r.error
           /\ Len(r.promises) = Len(kept)
           /\ \A n \in DOMAIN r.promises :
                 LET made == Strip(kept[n].date)
                     pr == r.promises[n]
                 IN /\ pr.has_madeDate <=> (kept[n].has_date /\ made # <<>>)
                    /\ pr.has_madeDate => pr.madeDate = made
                    /\ pr.has_dueDate <=> (pr.has_madeDate /\ IsIsoDate(made))
                    /\ pr.has_dueDate =>
                          pr.dueDate = Decimal(ToNat(SubSeq(made, 1, 4)) + 3) \o SubSeq(made, 5, 10)

\* C20: in a returned record with K promises the ids are pr1 .. prK in list
\* order, the promises being those of the page's statements that have a
\* text, in page order; each has status in-progress; and keyAchievements is
\* the descriptions of the first min(5, K) promises in order.
C20_PromiseIds ==
    (detail.done /\ detail.result.has_promises) =>
        LET r == detail.result
            kept == WithText(detail.page.statements)
            K == Len(r.promises)
        IN /\ K = Len(kept)
           /\ \A k \in 1..K :
                 /\ r.promises[k].id = <<"p", "r">> \o Decimal(k)
                 /\ r.promises[k].description = Strip(kept[k].text)
                 /\ r.promises[k].status = "in-progress"
           /\ r.has_keyAchievements
           /\ Len(r.keyAchievements) = (IF K < 5 THEN K ELSE 5)
           /\ \A i \in DOMAIN r.keyAchievements :
                 r.keyAchievements[i] = r.promises[i].description

\* a page of seven statements, the first without a text: six promises, the
\* last of them pr6, and five key achievements
C20_Witness ==
    /\ detail.done
    /\ Len(detail.page.statements) = 7
    /\ ~ detail.page.statements[1].has_text
    /\ Len(detail.result.promises) = 6
    /\ detail.result.promises[6].id = <<"p", "r", "6">>
    /\ Len(detail.result.keyAchievements) = 5

\* C21: every candidate a scrapeCategory call accumulates was parsed from the
\* seed page or from a page the seed page's pagination links to; no candidate
\* of a senate or county-assembly call comes from the national-assembly page.
C21_OwnListing ==
    /\ Len(hist.sources) = Len(call.politicians)
    /\ \A i \in DOMAIN hist.sources :
          /\ \/ hist.sources[i] = call.url
             \/ \E j \in DOMAIN web[call.url].links : web[call.url].links[j] = hist.sources[i]
          /\ call.category \in {"senate", "county_assemblies"}
                => hist.sources[i] # Url(NationalAssemblyPath, 0)

\* C22: an approvalRating that parse_politician_detail_page emits lies
\* between 0 and 5 (0 and 50 tenths): the summed present counts do not
\* exceed the summed totals, also with rows that have a present count but no
\* absent count.
C22_RatingInRange ==
    (detail.done /\ detail.result.has_approvalRating) =>
        /\ detail.result.approvalRating >= 0
        /\ detail.result.approvalRating <= 50

\* the per-record files written for record r: the file at r's save path that
\* holds r's profile
FilesOf(r) ==
    { f \in files : f.path = SavePath(r, r.category) /\ f.data.profile_url = r.profile_url }

\* C23: at the end of scrape_all, the per-record file of every record of the
\* corpus-wide list holds the same field values (county included) as the
\* record's entry in all_leaders.json and in its category summary.
C23_FileMatchesSummary ==
    top.pc = "done" =>
        /\ \A i \in DOMAIN top.all_leaders :
              \A f \in FilesOf(top.all_leaders[i]) : f.data = top.all_leaders[i]
        /\ \A s \in top.summaries : \A i \in DOMAIN s.data :
              \A f \in FilesOf(s.data[i]) : f.data = s.data[i]

====
